---- MODULE Spec2Model ----
(***************************************************************************)
(* The dynamic agent-scheduling workflow of jordimorillo/multi-agents:     *)
(* the graph built by MultiAgentWorkflow._build_graph, its router, the     *)
(* coordinator (architect) step, the specialist/observer step of           *)
(* LangChainAgentBase.execute and the rate-limit retry loop of             *)
(* _execute_with_retry; and the queue worker BaseAgent.process_task.       *)
(*                                                                         *)
(* The graph runtime is modelled as the source uses it: one state          *)
(* dictionary is handed from node to node along the edges declared in      *)
(* _build_graph, a node's in-place mutations are what the next node sees,  *)
(* and an exception that leaves a node ends the run (execute re-raises).   *)
(* The LLM service is the environment: every attempt of a call succeeds,   *)
(* is rate-limited or fails otherwise, and the coordinator's tool calls    *)
(* (schedule_agents, assign_models) happen while an attempt is running.    *)
(*                                                                         *)
(* Three specifications share the variables:                               *)
(*   Spec          a MultiAgentWorkflow after construction, on which       *)
(*                 execute() or resume() is called;                        *)
(*   DispatchSpec  the router loop of the same graph handed a state        *)
(*                 dictionary that carries 'agent_models', the only states *)
(*                 in which the model override of execute can act;         *)
(*   ProcessSpec   BaseAgent.process_task on one queue message.            *)
(***************************************************************************)
EXTENDS Integers, Sequences, FiniteSets, TLC

(***************************************************************************)
(* Bounds of the model.                                                    *)
(***************************************************************************)
MaxSchedule == 2    \* comma-separated fields in one schedule_agents input
MaxToolCalls == 1   \* tool calls of the coordinator within one LLM attempt
MaxTokens == 1      \* tokens counted by the callback of one LLM attempt

(***************************************************************************)
(* Program constants.                                                      *)
(***************************************************************************)
max_retries == 5
initial_delay == 2
recursion_limit == 1000

(***************************************************************************)
(* Identifiers, nodes and the lookup tables of the source.                 *)
(***************************************************************************)
ARCHITECT_ID == "agent-01-fullstack-architect"

\* node name -> agent_id of the agent object registered for the node
NodeAgentId ==
    [ architect   |-> ARCHITECT_ID,
      frontend    |-> "agent-02-frontend-specialist",
      backend     |-> "agent-03-backend-specialist",
      devops      |-> "agent-04-devops-specialist",
      security    |-> "agent-05-security-specialist",
      performance |-> "agent-06-performance-specialist",
      qa          |-> "agent-07-qa-specialist",
      seo         |-> "agent-08-seo-specialist",
      ux          |-> "agent-09-ux-specialist",
      data        |-> "agent-10-data-specialist",
      ai          |-> "agent-11-ai-specialist",
      observer    |-> "agent-12-observer-optimizer" ]

\* the ten nodes that have an edge back to the router
SpecialistNodes ==
    { "frontend", "backend", "devops", "security", "performance",
      "qa", "seo", "ux", "data", "ai" }

AgentNodes == DOMAIN NodeAgentId

\* mutant of agent_map: the table knows the short names only
agent_map_ShortOnly ==
    [ n \in SpecialistNodes \cup {"observer"} |-> n ]

\* agent_map of _route_to_agents: identifier -> node name
agent_map ==
    ( "agent-02-frontend-specialist"    :> "frontend" ) @@
    ( "agent-03-backend-specialist"     :> "backend" ) @@
    ( "agent-04-devops-specialist"      :> "devops" ) @@
    ( "agent-05-security-specialist"    :> "security" ) @@
    ( "agent-06-performance-specialist" :> "performance" ) @@
    ( "agent-07-qa-specialist"          :> "qa" ) @@
    ( "agent-08-seo-specialist"         :> "seo" ) @@
    ( "agent-09-ux-specialist"          :> "ux" ) @@
    ( "agent-10-data-specialist"        :> "data" ) @@
    ( "agent-11-ai-specialist"          :> "ai" ) @@
    ( "agent-12-observer-optimizer"     :> "observer" ) @@
    ( "frontend" :> "frontend" ) @@ ( "backend" :> "backend" ) @@
    ( "devops" :> "devops" ) @@ ( "security" :> "security" ) @@
    ( "performance" :> "performance" ) @@ ( "qa" :> "qa" ) @@
    ( "seo" :> "seo" ) @@ ( "ux" :> "ux" ) @@ ( "data" :> "data" ) @@
    ( "ai" :> "ai" ) @@ ( "observer" :> "observer" )

\* the static edges added with add_edge
Edge(node) ==
    CASE node = "start"          -> "architect"
      [] node = "architect"      -> "router"
      [] node \in SpecialistNodes -> "router"
      [] node = "observer"       -> "END"

(***************************************************************************)
(* Inputs of the environment.                                              *)
(***************************************************************************)
\* identifiers the coordinator may write into a schedule
ScheduleIds ==
    { "backend", "agent-03-backend-specialist", "qa", "observer", "intern" }

\* one comma-separated field of the schedule_agents input: the text and
\* whether blanks surround it ("frontend, backend" pads its second field)
Fields ==
    [ pad : {FALSE}, text : ScheduleIds \cup {""} ]
        \cup [ pad : {TRUE}, text : {"qa", ""} ]

SeqsUpTo(S, n) == UNION { [1..k -> S] : k \in 0..n }

\* str.split(',') yields at least one field
ScheduleInputs == SeqsUpTo(Fields, MaxSchedule) \ { <<>> }

Models == { "gpt-4o", "gpt-4o-mini", "gpt-3.5-turbo" }

EmptyMap == [ k \in {} |-> "" ]

\* inputs of assign_models: the text is JSON or not, and the mapping it holds
AssignInputs ==
    { [ json |-> FALSE, map |-> EmptyMap ],
      [ json |-> TRUE,  map |-> EmptyMap ],
      [ json |-> TRUE,  map |-> [ k \in {"backend"} |-> "gpt-4o" ] ],
      [ json |-> TRUE,  map |-> [ k \in {"agent-03-backend-specialist"} |-> "gpt-4o-mini" ] ],
      [ json |-> TRUE,  map |-> [ k \in {"qa"} |-> "gpt-5" ] ] }

\* Python's None, for the names that hold a string or None
None == ""

\* ChatOpenAI(model=config.get('model', 'gpt-4-turbo-preview'))
DEFAULT_MODEL == "gpt-4-turbo-preview"

\* what get_openai_callback has counted when an attempt returns: the tokens
\* of the attempt and their cost, two cost units a token
Callbacks ==
    { [ total_tokens |-> t, total_cost |-> 2 * t ] : t \in {0, MaxTokens} }

\* the characters of a wait text
Digits == { "0", "1", "2", "3", "4", "5", "6", "7", "8", "9" }

DigitValue ==
    ( "0" :> 0 ) @@ ( "1" :> 1 ) @@ ( "2" :> 2 ) @@ ( "3" :> 3 ) @@
    ( "4" :> 4 ) @@ ( "5" :> 5 ) @@ ( "6" :> 6 ) @@ ( "7" :> 7 ) @@
    ( "8" :> 8 ) @@ ( "9" :> 9 )

\* str(e) of a RateLimitError: whether it holds "Please try again in", and
\* the characters between that phrase and the next "s"
PlainMessage == [ phrase |-> FALSE, text |-> <<>> ]

RateLimitMessages ==
    { PlainMessage,
      [ phrase |-> TRUE, text |-> << "5" >> ],                      \* 5s
      [ phrase |-> TRUE, text |-> << "1", ".", "5" >> ],            \* 1.5s
      [ phrase |-> TRUE, text |-> << "1", ".", "2", ".", "3" >> ],  \* 1.2.3s
      [ phrase |-> TRUE, text |-> << "a" >> ],                      \* a few s...
      [ phrase |-> TRUE, text |-> << "2", "0", "0", "m" >> ] }      \* 200ms

\* state dictionaries handed to the router loop in DispatchSpec: the value
\* under 'agent_models' and the queue under 'next_agents'
DispatchModels ==
    { EmptyMap,
      [ k \in {"backend"} |-> "gpt-4o" ],
      [ k \in {"agent-03-backend-specialist"} |-> "gpt-4o-mini" ],
      [ k \in {"backend", "agent-03-backend-specialist"} |->
          IF k = "backend" THEN "gpt-4o" ELSE "gpt-4o-mini" ],
      [ k \in {"qa"} |-> DEFAULT_MODEL ],
      [ k \in {"agent-12-observer-optimizer"} |-> "gpt-3.5-turbo" ] }

DispatchQueues == SeqsUpTo({ "backend", "agent-03-backend-specialist", "qa" },
                           MaxSchedule)

VARIABLES
    pc,                 \* node about to run / running; "END" and "raised" end a run
    phase,              \* position inside an agent's execute: "idle" or "llm"
    iteration,          \* state['iteration']
    next_agents,        \* state['next_agents']
    task_complete,      \* state.get('task_complete')
    agent_results,      \* state['agent_results']
    completed_agents,   \* state['completed_agents']
    failed_agents,      \* state['failed_agents']
    messages,           \* state['messages']
    total_tokens_used,  \* state['total_tokens_used']
    total_cost_usd,     \* state['total_cost_usd'], in the unit of Callbacks
    agent_models,       \* state['agent_models'] and whether the key exists
    scheduled_agents,   \* FullStackArchitectAgent._scheduled_agents
    assigned_models,    \* FullStackArchitectAgent._assigned_models
    llm_model,          \* self.llm.model_name of the agent object of each node
    original_model,     \* local original_model of execute
    attempt,            \* loop variable of _execute_with_retry
    delay,              \* local delay of _execute_with_retry
    toolcalls,          \* tool calls made in the running LLM attempt
    llm_outcome,        \* how the latest LLM attempt ended: "ok", "rate_limit", "error"
    tokens_consumed,    \* tokens the LLM service counted over all attempts so far
    warnings,           \* logger.warning records of the node running / run last
    call,               \* public method called on the workflow
    error,              \* exception that left the public method
    graph_runs,         \* calls of self.graph.ainvoke
    service_messages,   \* texts the LLM service of the run puts in a RateLimitError
    rl_messages,        \* str(e) of the RateLimitErrors of the running call, in order
    slept,              \* time spent in asyncio.sleep by the running call, in 1/10 s
    sleeps,             \* calls of asyncio.sleep by the running call
    exc,                \* exception that left _execute_with_retry
    pt_pc,              \* position inside BaseAgent.process_task
    pt_task,            \* the message and the clients process_task works with
    pt_result,          \* outcome of execute_task
    linear_state,       \* state of the Linear issue
    github_pr_url,      \* local github_pr_url of process_task
    events,             \* events published on Redis
    acked,              \* the message was XACKed
    stats,              \* agent:<id>:stats
    pt_errors,          \* logger.error records of process_task
    faults              \* collaborators whose call failed during process_task

wfVars == << pc, phase, iteration, next_agents, task_complete, agent_results,
             completed_agents, failed_agents, messages, total_tokens_used,
             total_cost_usd, agent_models, scheduled_agents, assigned_models,
             llm_model, original_model, attempt, delay, toolcalls,
             llm_outcome, tokens_consumed, warnings, call, error,
             graph_runs, service_messages, rl_messages, slept, sleeps,
             exc >>

ptVars == << pt_pc, pt_task, pt_result, linear_state, github_pr_url, events,
             acked, stats, pt_errors, faults >>

vars == << wfVars, ptVars >>

stateVars == << iteration, next_agents, task_complete, agent_results,
                completed_agents, failed_agents, messages, total_tokens_used,
                total_cost_usd, agent_models >>

callVars == << call, error, graph_runs >>

retryVars == << rl_messages, slept, sleeps, exc >>

\* no exception
NoError == [ type |-> None, msg |-> PlainMessage ]

Msg(kind, agent) == [ kind |-> kind, agent |-> agent ]

\* the value of state['agent_models'] when create_initial_state built the
\* state: the key does not exist
NoAgentModels == [ present |-> FALSE, map |-> EmptyMap ]

\* process_task is not running
PTIdle ==
    /\ pt_pc = "off"
    /\ pt_task = [ linear |-> FALSE, github |-> FALSE ]
    /\ pt_result = "none"
    /\ linear_state = "Todo"
    /\ github_pr_url = None
    /\ events = <<>>
    /\ acked = FALSE
    /\ stats = [ tasks_completed |-> 0, tasks_failed |-> 0 ]
    /\ pt_errors = 0
    /\ faults = {}

\* no run of the graph is going on
WFIdle ==
    /\ pc = "constructed"
    /\ phase = "idle"
    /\ iteration = 0
    /\ next_agents = <<>>
    /\ task_complete = FALSE
    /\ agent_results = EmptyMap
    /\ completed_agents = <<>>
    /\ failed_agents = <<>>
    /\ messages = <<>>
    /\ total_tokens_used = 0
    /\ total_cost_usd = 0
    /\ agent_models = NoAgentModels
    /\ scheduled_agents = <<>>
    /\ assigned_models = EmptyMap
    /\ llm_model = [ n \in AgentNodes |-> DEFAULT_MODEL ]
    /\ original_model = None
    /\ attempt = 0
    /\ delay = initial_delay
    /\ toolcalls = 0
    /\ llm_outcome = "none"
    /\ tokens_consumed = 0
    /\ warnings = 0
    /\ call = "none"
    /\ error = None
    /\ graph_runs = 0
    /\ rl_messages = <<>>
    /\ slept = 0
    /\ sleeps = 0
    /\ exc = NoError

(***************************************************************************)
(* MultiAgentWorkflow.__init__: the graph is compiled without a            *)
(* checkpointer, no call has been made.                                    *)
(***************************************************************************)
Init == WFIdle /\ PTIdle /\ service_messages = { PlainMessage }

(***************************************************************************)
(* execute: create_initial_state and graph.ainvoke                         *)
(***************************************************************************)
Execute ==
    /\ pc = "constructed"
    /\ call' = "execute"
    /\ graph_runs' = graph_runs + 1
    /\ agent_results' = EmptyMap
    /\ completed_agents' = <<>>
    /\ failed_agents' = <<>>
    /\ messages' = << Msg("created", "") >>
    /\ total_tokens_used' = 0
    /\ total_cost_usd' = 0
    /\ agent_models' = NoAgentModels
    /\ pc' = "start"
    /\ UNCHANGED << phase, iteration, next_agents, task_complete,
                    scheduled_agents, assigned_models, llm_model,
                    original_model, attempt, delay, toolcalls, llm_outcome,
                    tokens_consumed, warnings, error, service_messages,
                    retryVars, ptVars >>

\* exceptions graph.ainvoke(None, config) ends with when the compiled graph
\* has no checkpointer: the runtime finds no input for the entry node, or
\* the entry node subscripts the None it was handed
ResumeErrors == { "EmptyInputError", "TypeError" }

(***************************************************************************)
(* resume: graph.ainvoke(None, config), whatever self.checkpointer is      *)
(***************************************************************************)
Resume ==
    /\ pc = "constructed"
    /\ call' = "resume"
    /\ graph_runs' = graph_runs + 1
    /\ pc' = "raised"
    /\ error' \in ResumeErrors
    /\ UNCHANGED << phase, stateVars, scheduled_agents, assigned_models,
                    llm_model, original_model, attempt, delay, toolcalls,
                    llm_outcome, tokens_consumed, warnings,
                    service_messages, retryVars, ptVars >>

(***************************************************************************)
(* _start_node                                                             *)
(***************************************************************************)
\* mutant of StartMessages: the start node writes a new list
StartMessages_Reset(msgs) == << Msg("init", ""), Msg("task", "") >>

\* state['messages'] after the two appends of _start_node
StartMessages(msgs) == msgs \o << Msg("init", ""), Msg("task", "") >>

StartNode ==
    /\ pc = "start"
    /\ messages' = StartMessages(messages)
    /\ iteration' = 0
    /\ next_agents' = <<>>
    /\ pc' = Edge("start")
    /\ UNCHANGED << phase, task_complete, agent_results, completed_agents,
                    failed_agents, total_tokens_used, total_cost_usd,
                    agent_models, scheduled_agents, assigned_models,
                    llm_model, original_model, attempt, delay, toolcalls,
                    llm_outcome, tokens_consumed, warnings, callVars,
                    service_messages, retryVars, ptVars >>

(***************************************************************************)
(* _router_node and the conditional edge _route_to_agents, which the       *)
(* runtime evaluates on the router's result before any other node runs.    *)
(***************************************************************************)
\* state['next_agents'] as _router_node leaves it
RouterQueue(complete, queue) ==
    IF complete THEN << "observer" >>
    ELSE IF queue = <<>> THEN << "observer" >>
    ELSE queue

\* mutant of RouteToAgents: the identifier at the back of the queue is routed
RouteToAgents_Last(queue) ==
    IF queue = <<>> THEN "end"
    ELSE IF queue[Len(queue)] \in DOMAIN agent_map
      THEN agent_map[queue[Len(queue)]]
    ELSE "end"

\* return value of _route_to_agents for the queue the router left
RouteToAgents(queue) ==
    IF queue = <<>> THEN "end"
    ELSE IF Head(queue) \in DOMAIN agent_map THEN agent_map[Head(queue)]
    ELSE "end"

\* mutant of RoutePop: the routed identifier stays at the front of the queue
RoutePop_Peek(queue) == queue

\* state['next_agents'] after _route_to_agents: pop(0) unless the queue is empty
RoutePop(queue) == IF queue = <<>> THEN queue ELSE Tail(queue)

\* the mapping handed to add_conditional_edges
ConditionalEdge(key) == IF key = "end" THEN "END" ELSE key

\* logger.warning calls of _router_node and _route_to_agents: there is none
RouterWarnings(queue) == 0

\* mutant of NextIteration: the router leaves the counter alone
NextIteration_Same(it) == it

\* state['iteration'] = state.get('iteration', 0) + 1
NextIteration(it) == it + 1

Router ==
    /\ pc = "router"
    /\ iteration' = NextIteration(iteration)
    /\ LET queue == RouterQueue(task_complete, next_agents) IN
         /\ next_agents' = RoutePop(queue)
         /\ pc' = ConditionalEdge(RouteToAgents(queue))
         /\ warnings' = RouterWarnings(queue)
    /\ phase' = "idle"
    /\ UNCHANGED << task_complete, agent_results, completed_agents,
                    failed_agents, messages, total_tokens_used,
                    total_cost_usd, agent_models, scheduled_agents,
                    assigned_models, llm_model, original_model, attempt,
                    delay, toolcalls, llm_outcome, tokens_consumed,
                    callVars, service_messages, retryVars, ptVars >>

(***************************************************************************)
(* The coordinator's tools.                                                *)
(***************************************************************************)
strip(field) == field.text

\* [a.strip() for a in agent_ids.split(',') if a.strip()]
ParseAgentIds(fields) ==
    LET stripped == [ i \in 1..Len(fields) |-> strip(fields[i]) ]
    IN  SelectSeq(stripped, LAMBDA a : a # "")

\* _schedule_agents: the value stored in self._scheduled_agents
ScheduleAgents(fields) ==
    IF Len(fields) = 1 /\ strip(fields[1]) = "" THEN <<>>
    ELSE ParseAgentIds(fields)

\* _assign_models: the value of self._assigned_models after the call
AssignModels(current, input) ==
    IF ~input.json THEN current
    ELSE IF \E k \in DOMAIN input.map : input.map[k] \notin Models THEN current
    ELSE input.map

ToolScheduleAgents ==
    /\ pc = "architect"
    /\ phase = "llm"
    /\ toolcalls < MaxToolCalls
    /\ \E fields \in ScheduleInputs :
         scheduled_agents' = ScheduleAgents(fields)
    /\ toolcalls' = toolcalls + 1
    /\ UNCHANGED << pc, phase, stateVars, assigned_models, llm_model,
                    original_model, attempt, delay, llm_outcome,
                    tokens_consumed, warnings, callVars, service_messages,
                    retryVars, ptVars >>

ToolAssignModels ==
    /\ pc = "architect"
    /\ phase = "llm"
    /\ toolcalls < MaxToolCalls
    /\ \E input \in AssignInputs :
         assigned_models' = AssignModels(assigned_models, input)
    /\ toolcalls' = toolcalls + 1
    /\ UNCHANGED << pc, phase, stateVars, scheduled_agents, llm_model,
                    original_model, attempt, delay, llm_outcome,
                    tokens_consumed, warnings, callVars, service_messages,
                    retryVars, ptVars >>

(***************************************************************************)
(* LangChainAgentBase.execute with its retry loop, and the coordinator's   *)
(* override of it.                                                         *)
(***************************************************************************)
\* state.get('agent_models', {})
StateGetModels(models) == IF models.present THEN models.map ELSE EmptyMap

\* mutant of PossibleKeys: only the agent_id is looked up
PossibleKeys_CanonicalOnly(node) == << NodeAgentId[node] >>

\* possible_keys without its None entries: the agent_id, then the one short
\* name that is a substring of the agent_id
PossibleKeys(node) ==
    << NodeAgentId[node] >>
        \o (IF node \in SpecialistNodes THEN << node >> ELSE <<>>)

\* mutant of AssignedModel: the assignment is never found
AssignedModel_Unset(models, node) == None

\* assigned_model: the value under the first possible key the mapping has
AssignedModel(models, node) ==
    LET found == SelectSeq(PossibleKeys(node), LAMBDA k : k \in DOMAIN models)
    IN  IF found = <<>> THEN None ELSE models[Head(found)]

\* if assigned_model and assigned_model != self.llm.model_name
Overrides(assigned, current) == assigned # None /\ assigned # current

\* execute up to the first LLM attempt
AgentBegin ==
    /\ pc \in AgentNodes
    /\ phase = "idle"
    /\ phase' = "llm"
    /\ attempt' = 0
    /\ delay' = initial_delay
    /\ toolcalls' = 0
    /\ llm_outcome' = "none"
    /\ warnings' = 0
    /\ IF pc = "architect"
         THEN scheduled_agents' = <<>> /\ assigned_models' = EmptyMap
         ELSE UNCHANGED << scheduled_agents, assigned_models >>
    /\ LET assigned == AssignedModel(StateGetModels(agent_models), pc) IN
         IF Overrides(assigned, llm_model[pc])
           THEN /\ original_model' = llm_model[pc]
                /\ llm_model' = [ llm_model EXCEPT ![pc] = assigned ]
           ELSE /\ original_model' = None
                /\ UNCHANGED llm_model
    /\ rl_messages' = <<>>
    /\ slept' = 0
    /\ sleeps' = 0
    /\ exc' = NoError
    /\ UNCHANGED << pc, stateVars, tokens_consumed, callVars,
                    service_messages, ptVars >>

\* _parse_output
ParseOutput(cb) ==
    [ success |-> TRUE, tokens_used |-> cb.total_tokens,
      cost_usd |-> cb.total_cost ]

\* mutant of SuccessResults: the agent's result replaces the whole mapping
SuccessResults_Replace(results, id, result) == (id :> result)

\* state['agent_results'] after the try block of execute
SuccessResults(results, id, result) == (id :> result) @@ results

\* state['agent_results'] after the except block of execute
FailureResults(results, id) == results

\* mutant of AddTokens: the total is assigned, not added to
AddTokens_Assign(total, result) == result.tokens_used

\* state['total_tokens_used'] += agent_result.get('tokens_used', 0)
AddTokens(total, result) == total + result.tokens_used

\* state['total_cost_usd'] += agent_result.get('cost_usd', 0.0)
AddCost(total, result) == total + result.cost_usd

\* mutant of AppendCompleted: an agent already in the list is not added again
AppendCompleted_Dedup(list, id) ==
    IF \E i \in 1..Len(list) : list[i] = id THEN list ELSE Append(list, id)

\* state['completed_agents'].append(self.agent_id)
AppendCompleted(list, id) == Append(list, id)

\* mutant of AppendFailed: the except block does not record the agent
AppendFailed_Skip(list, id) == list

\* state['failed_agents'].append(self.agent_id)
AppendFailed(list, id) == Append(list, id)

\* self.llm.model_name after the try block: if original_model: restore
RestoreOnSuccess(current, original) ==
    IF original # None THEN original ELSE current

\* mutant of RestoreOnError: the except block leaves the assigned model on
RestoreOnError_Keep(current, original) == current

\* self.llm.model_name after the except block: if original_model: restore
RestoreOnError(current, original) ==
    IF original # None THEN original ELSE current

\* mutant of InjectNextAgents: the schedule is not copied into the state
InjectNextAgents_Keep(queue, scheduled) == queue

\* state['next_agents'] after the coordinator's execute
InjectNextAgents(queue, scheduled) == scheduled

\* mutant of InjectTaskComplete: an empty schedule does not mark the task complete
InjectTaskComplete_Unset(complete, scheduled) == complete

\* state.get('task_complete') after the coordinator's execute
InjectTaskComplete(complete, scheduled) ==
    IF scheduled = <<>> THEN TRUE ELSE complete

\* state['agent_models'][agent_id] = model: without an 'agent_models' key in
\* the state the first assignment raises KeyError
InjectModelsRaises(models, assigned) ==
    assigned # EmptyMap /\ ~models.present

\* state['agent_models'] after the loop over self._assigned_models
InjectModels(models, assigned) ==
    IF assigned = EmptyMap \/ ~models.present THEN models
    ELSE [ present |-> TRUE, map |-> assigned @@ models.map ]

\* what follows the body of LangChainAgentBase.execute
AfterExecute(node) ==
    IF node = "architect"
      THEN /\ next_agents' = InjectNextAgents(next_agents, scheduled_agents)
           /\ task_complete' = InjectTaskComplete(task_complete, scheduled_agents)
           /\ agent_models' = InjectModels(agent_models, assigned_models)
           /\ IF InjectModelsRaises(agent_models, assigned_models)
                THEN pc' = "raised" /\ error' = "KeyError"
                ELSE pc' = Edge(node) /\ error' = error
      ELSE /\ UNCHANGED << next_agents, task_complete, agent_models, error >>
           /\ pc' = Edge(node)

\* lines 429-442
ExecuteSucceeds(node, cb) ==
    /\ agent_results' =
         SuccessResults(agent_results, NodeAgentId[node], ParseOutput(cb))
    /\ completed_agents' = AppendCompleted(completed_agents, NodeAgentId[node])
    /\ messages' = Append(messages, Msg("completado", NodeAgentId[node]))
    /\ total_tokens_used' = AddTokens(total_tokens_used, ParseOutput(cb))
    /\ total_cost_usd' = AddCost(total_cost_usd, ParseOutput(cb))
    /\ llm_model' = [ llm_model EXCEPT
                        ![node] = RestoreOnSuccess(@, original_model) ]
    /\ UNCHANGED failed_agents
    /\ AfterExecute(node)

\* mutant of ExecuteFails: the except block re-raises instead of returning state
ExecuteFails_Reraise(node) ==
    /\ failed_agents' = AppendFailed(failed_agents, NodeAgentId[node])
    /\ messages' = Append(messages, Msg("fallo", NodeAgentId[node]))
    /\ llm_model' = [ llm_model EXCEPT
                        ![node] = RestoreOnError(@, original_model) ]
    /\ pc' = "raised"
    /\ UNCHANGED << agent_results, completed_agents, total_tokens_used,
                    total_cost_usd, next_agents, task_complete, agent_models,
                    error >>

\* lines 444-455
ExecuteFails(node) ==
    /\ agent_results' = FailureResults(agent_results, NodeAgentId[node])
    /\ failed_agents' = AppendFailed(failed_agents, NodeAgentId[node])
    /\ messages' = Append(messages, Msg("fallo", NodeAgentId[node]))
    /\ llm_model' = [ llm_model EXCEPT
                        ![node] = RestoreOnError(@, original_model) ]
    /\ UNCHANGED << completed_agents, total_tokens_used, total_cost_usd >>
    /\ AfterExecute(node)

\* an attempt of _execute_with_retry returns
LLMSuccess ==
    /\ pc \in AgentNodes
    /\ phase = "llm"
    /\ \E cb \in Callbacks :
         /\ ExecuteSucceeds(pc, cb)
         /\ tokens_consumed' = tokens_consumed + cb.total_tokens
    /\ phase' = "idle"
    /\ llm_outcome' = "ok"
    /\ UNCHANGED << iteration, scheduled_agents, assigned_models,
                    original_model, attempt, delay, toolcalls, warnings,
                    call, graph_runs, service_messages, retryVars, ptVars >>

\* tokens the callback of an attempt has counted when the attempt raises:
\* the executor may have completed LLM calls before the one that raised.
\* The tokens no total accounts for are capped at MaxTokens, and the
\* coordinator's attempts raise before any call completes.
PartialTokens(node, lost) ==
    IF node # "architect" /\ lost < MaxTokens THEN {0, MaxTokens} ELSE {0}

\* mutant of RetriesExhausted: one more attempt than max_retries is made
RetriesExhausted_OneMore(a) == ~(a < max_retries)

\* mutant of RetriesExhausted: the first RateLimitError is raised at once
RetriesExhausted_NoRetry(a) == a >= 0

\* attempt < max_retries - 1 fails: the RateLimitError is raised
RetriesExhausted(a) == ~(a < max_retries - 1)

\* seconds in the unit of slept, 1/10 s
Seconds(n) == 10 * n

\* re.search(r'try again in ([\d.]+)s', error_msg) finds a match: the text
\* up to the next "s" is a non-empty run of digits and dots
RegexMatches(text) ==
    /\ text # <<>>
    /\ \A i \in 1..Len(text) : text[i] \in Digits \cup {"."}

\* float(match.group(1)) returns: at most one dot and at least one digit
FloatValid(text) ==
    /\ Cardinality({ i \in 1..Len(text) : text[i] = "." }) <= 1
    /\ \E i \in 1..Len(text) : text[i] \in Digits

RECURSIVE IntValue(_)
\* value of a run of decimal digits, 0 for the empty run
IntValue(digits) ==
    IF digits = <<>> THEN 0
    ELSE 10 * IntValue(SubSeq(digits, 1, Len(digits) - 1))
           + DigitValue[digits[Len(digits)]]

\* float(text) in 1/10 s, for a valid text with at most one decimal place
FloatValue(text) ==
    LET dots == { i \in 1..Len(text) : text[i] = "." }
        dot  == IF dots = {} THEN Len(text) + 1 ELSE CHOOSE i \in dots : TRUE
        frac == SubSeq(text, dot + 1, Len(text))
    IN  10 * IntValue(SubSeq(text, 1, dot - 1))
          + (IF frac = <<>> THEN 0 ELSE DigitValue[frac[1]])

\* mutant of WaitTime: the parsed wait is slept without the 1 s buffer
WaitTime_NoBuffer(msg, d) ==
    IF msg.phrase /\ RegexMatches(msg.text) /\ FloatValid(msg.text)
      THEN FloatValue(msg.text)
    ELSE Seconds(d)

\* mutant of WaitTime: the server's wait is not read
WaitTime_BackoffOnly(msg, d) == Seconds(d)

\* mutant of WaitTime: a wait text that float() rejects leaves no wait
WaitTime_ZeroOnMalformed(msg, d) ==
    IF msg.phrase /\ RegexMatches(msg.text)
      THEN IF FloatValid(msg.text)
             THEN FloatValue(msg.text) + Seconds(1)
           ELSE 0
    ELSE Seconds(d)

\* wait_time: the delay, or the parsed wait plus 1 s; a ValueError of
\* float() is swallowed by the bare except and leaves the delay
WaitTime(msg, d) ==
    IF msg.phrase /\ RegexMatches(msg.text) /\ FloatValid(msg.text)
      THEN FloatValue(msg.text) + Seconds(1)
    ELSE Seconds(d)

\* mutant of NextDelay: the delay does not grow
NextDelay_Constant(d) == d

\* delay *= 2
NextDelay(d) == d * 2

\* last_error after the except clause caught the latest RateLimitError
LastError(caught) == caught[Len(caught)]

\* an attempt raises RateLimitError
LLMRateLimit ==
    /\ pc \in AgentNodes
    /\ phase = "llm"
    /\ llm_outcome' = "rate_limit"
    /\ \E t \in PartialTokens(pc, tokens_consumed - total_tokens_used) :
         tokens_consumed' = tokens_consumed + t
    /\ \E msg \in service_messages :
         /\ rl_messages' = Append(rl_messages, msg)
         /\ IF RetriesExhausted(attempt)
              THEN /\ ExecuteFails(pc)
                   /\ phase' = "idle"
                   /\ exc' = [ type |-> "RateLimitError",
                               msg |-> LastError(rl_messages') ]
                   /\ UNCHANGED << iteration, attempt, delay, toolcalls,
                                   warnings, slept, sleeps >>
              ELSE /\ attempt' = attempt + 1
                   /\ slept' = slept + WaitTime(msg, delay)
                   /\ sleeps' = sleeps + 1
                   /\ delay' = NextDelay(delay)
                   /\ toolcalls' = 0
                   /\ warnings' = warnings + 1
                   /\ UNCHANGED << pc, phase, stateVars, llm_model, error,
                                   exc >>
    /\ UNCHANGED << scheduled_agents, assigned_models, original_model, call,
                    graph_runs, service_messages, ptVars >>

\* mutant of LLMError: any exception is retried like a rate-limit error
LLMError_Retry ==
    /\ pc \in AgentNodes
    /\ phase = "llm"
    /\ llm_outcome' = "error"
    /\ IF RetriesExhausted(attempt)
         THEN /\ ExecuteFails(pc)
              /\ phase' = "idle"
              /\ exc' = [ type |-> "Exception", msg |-> PlainMessage ]
              /\ UNCHANGED << iteration, attempt, delay, toolcalls, warnings,
                              slept, sleeps >>
         ELSE /\ attempt' = attempt + 1
              /\ slept' = slept + Seconds(delay)
              /\ sleeps' = sleeps + 1
              /\ delay' = NextDelay(delay)
              /\ toolcalls' = 0
              /\ UNCHANGED << pc, phase, stateVars, llm_model, error, exc,
                              warnings >>
    /\ UNCHANGED << scheduled_agents, assigned_models, original_model, call,
                    graph_runs, service_messages, rl_messages,
                    tokens_consumed, ptVars >>

\* an attempt raises any other exception
LLMError ==
    /\ pc \in AgentNodes
    /\ phase = "llm"
    /\ ExecuteFails(pc)
    /\ \E t \in PartialTokens(pc, tokens_consumed - total_tokens_used) :
         tokens_consumed' = tokens_consumed + t
    /\ phase' = "idle"
    /\ llm_outcome' = "error"
    /\ exc' = [ type |-> "Exception", msg |-> PlainMessage ]
    /\ UNCHANGED << iteration, scheduled_agents, assigned_models,
                    original_model, attempt, delay, toolcalls, warnings,
                    call, graph_runs, service_messages, rl_messages, slept,
                    sleeps, ptVars >>

(***************************************************************************)
(* BaseAgent.process_task on one message of the agent's queue.  Linear,    *)
(* GitHub and Redis are the environment: each call returns or raises.      *)
(***************************************************************************)
\* what execute_task does: raises, returns success False, or returns
\* success True without or with file changes to push
TaskOutcomes == { "raised", "failed", "ok", "ok_changes" }

TaskSucceeded == { "ok", "ok_changes" }

\* the two Linear calls of a step: both return, or one of them raises
LinearOutcomes == { "ok", "transition_raises", "comment_raises" }

\* step 1: transition_issue_to_state('In Progress'), create_comment
PTLinearStart ==
    /\ pt_pc = "linear_start"
    /\ IF pt_task.linear
         THEN \E o \in LinearOutcomes :
                /\ linear_state' =
                     IF o = "transition_raises" THEN linear_state
                     ELSE "In Progress"
                /\ pt_pc' = IF o = "ok" THEN "execute" ELSE "except"
                /\ faults' = IF o = "ok" THEN faults
                             ELSE faults \cup {"linear"}
         ELSE /\ pt_pc' = "execute"
              /\ UNCHANGED << linear_state, faults >>
    /\ UNCHANGED << wfVars, pt_task, pt_result, github_pr_url, events,
                    acked, stats, pt_errors >>

\* steps 2 and 3: load_rag_knowledge, execute_task, if not result.success: raise
PTExecuteTask ==
    /\ pt_pc = "execute"
    /\ \E r \in TaskOutcomes :
         /\ pt_result' = r
         /\ pt_pc' = IF r \in TaskSucceeded THEN "github" ELSE "except"
    /\ UNCHANGED << wfVars, pt_task, linear_state, github_pr_url, events,
                    acked, stats, pt_errors, faults >>

\* step 4: branch, commit and pull request inside try/except
PTGithubPush ==
    /\ pt_pc = "github"
    /\ pt_pc' = "linear_done"
    /\ IF pt_result = "ok_changes" /\ pt_task.github
         THEN \E ok \in BOOLEAN :
                IF ok
                  THEN /\ github_pr_url' = "pr"
                       /\ UNCHANGED << pt_errors, faults >>
                  ELSE /\ pt_errors' = pt_errors + 1
                       /\ faults' = faults \cup {"github"}
                       /\ UNCHANGED github_pr_url
         ELSE UNCHANGED << github_pr_url, pt_errors, faults >>
    /\ UNCHANGED << wfVars, pt_task, pt_result, linear_state, events, acked,
                    stats >>

\* step 5: create_comment, transition_issue_to_state('Done')
PTLinearDone ==
    /\ pt_pc = "linear_done"
    /\ IF pt_task.linear
         THEN \E o \in LinearOutcomes :
                /\ linear_state' = IF o = "ok" THEN "Done" ELSE linear_state
                /\ pt_pc' = IF o = "ok" THEN "publish" ELSE "except"
                /\ faults' = IF o = "ok" THEN faults
                             ELSE faults \cup {"linear"}
         ELSE /\ pt_pc' = "publish"
              /\ UNCHANGED << linear_state, faults >>
    /\ UNCHANGED << wfVars, pt_task, pt_result, github_pr_url, events,
                    acked, stats, pt_errors >>

\* step 6: publish_event('task-completed'), which logs what Redis raises
PTPublishCompleted ==
    /\ pt_pc = "publish"
    /\ pt_pc' = "xack"
    /\ \E ok \in BOOLEAN :
         IF ok
           THEN /\ events' = Append(events, "task-completed")
                /\ UNCHANGED << pt_errors, faults >>
           ELSE /\ pt_errors' = pt_errors + 1
                /\ faults' = faults \cup {"redis"}
                /\ UNCHANGED events
    /\ UNCHANGED << wfVars, pt_task, pt_result, linear_state, github_pr_url,
                    acked, stats >>

\* mutant of PTXack: the message counts as acknowledged although xack raised
PTXack_AckOnRaise ==
    /\ pt_pc = "xack"
    /\ acked' = TRUE
    /\ \E ok \in BOOLEAN :
         IF ok
           THEN /\ pt_pc' = "finish"
                /\ UNCHANGED faults
           ELSE /\ pt_pc' = "except"
                /\ faults' = faults \cup {"redis"}
    /\ UNCHANGED << wfVars, pt_task, pt_result, linear_state, github_pr_url,
                    events, stats, pt_errors >>

\* step 7: redis_client.xack
PTXack ==
    /\ pt_pc = "xack"
    /\ \E ok \in BOOLEAN :
         IF ok
           THEN /\ acked' = TRUE
                /\ pt_pc' = "finish"
                /\ UNCHANGED faults
           ELSE /\ pt_pc' = "except"
                /\ faults' = faults \cup {"redis"}
                /\ UNCHANGED acked
    /\ UNCHANGED << wfVars, pt_task, pt_result, linear_state, github_pr_url,
                    events, stats, pt_errors >>

\* update_agent_stats(success=True), update_agent_status('idle'), finally
PTFinish ==
    /\ pt_pc = "finish"
    /\ pt_pc' = "done"
    /\ \E ok \in BOOLEAN :
         IF ok
           THEN /\ stats' = [ stats EXCEPT !.tasks_completed = @ + 1 ]
                /\ UNCHANGED << pt_errors, faults >>
           ELSE /\ pt_errors' = pt_errors + 1
                /\ faults' = faults \cup {"redis"}
                /\ UNCHANGED stats
    /\ UNCHANGED << wfVars, pt_task, pt_result, linear_state, github_pr_url,
                    events, acked >>

\* the except block: logger.error, handle_task_error, finally
PTHandleError ==
    /\ pt_pc = "except"
    /\ pt_pc' = "done"
    /\ \E linear_ok, publish_ok, stats_ok \in BOOLEAN :
         LET linear_raises == pt_task.linear /\ ~linear_ok IN
           /\ events' = IF publish_ok THEN Append(events, "task-failed")
                        ELSE events
           /\ stats' = IF stats_ok
                         THEN [ stats EXCEPT !.tasks_failed = @ + 1 ]
                         ELSE stats
           /\ pt_errors' = pt_errors + 1
                + (IF linear_raises THEN 1 ELSE 0)
                + (IF publish_ok THEN 0 ELSE 1)
                + (IF stats_ok THEN 0 ELSE 1)
           /\ faults' = faults
                \cup (IF linear_raises THEN {"linear"} ELSE {})
                \cup (IF publish_ok /\ stats_ok THEN {} ELSE {"redis"})
    /\ UNCHANGED << wfVars, pt_task, pt_result, linear_state, github_pr_url,
                    acked >>

(***************************************************************************)
(* The specifications.                                                     *)
(***************************************************************************)
Next ==
    \/ Execute
    \/ Resume
    \/ StartNode
    \/ Router
    \/ AgentBegin
    \/ ToolScheduleAgents
    \/ ToolAssignModels
    \/ LLMSuccess
    \/ LLMRateLimit
    \/ LLMError

Spec == Init /\ [][Next]_vars

\* the event loop keeps running the one coroutine of the run, and every
\* awaited LLM call returns or raises
LiveSpec == Spec /\ WF_vars(Next)

\* the router is about to make its first pass over a state dictionary that
\* has the key 'agent_models'
DispatchInit ==
    /\ PTIdle
    /\ pc = "router"
    /\ phase = "idle"
    /\ iteration = 0
    /\ next_agents \in DispatchQueues
    /\ task_complete = FALSE
    /\ agent_results = EmptyMap
    /\ completed_agents = <<>>
    /\ failed_agents = <<>>
    /\ messages = << Msg("created", ""), Msg("init", ""), Msg("task", "") >>
    /\ total_tokens_used = 0
    /\ total_cost_usd = 0
    /\ agent_models \in [ present : {TRUE}, map : DispatchModels ]
    /\ scheduled_agents = next_agents
    /\ assigned_models = EmptyMap
    /\ llm_model = [ n \in AgentNodes |-> DEFAULT_MODEL ]
    /\ original_model = None
    /\ attempt = 0
    /\ delay = initial_delay
    /\ toolcalls = 0
    /\ llm_outcome = "none"
    /\ tokens_consumed = 0
    /\ warnings = 0
    /\ call = "none"
    /\ error = None
    /\ graph_runs = 0
    /\ service_messages = { PlainMessage }
    /\ rl_messages = <<>>
    /\ slept = 0
    /\ sleeps = 0
    /\ exc = NoError

DispatchNext ==
    \/ Router
    \/ AgentBegin
    \/ LLMSuccess
    \/ LLMRateLimit
    \/ LLMError

DispatchSpec == DispatchInit /\ [][DispatchNext]_vars

\* run_loop has read one message and calls process_task on it
ProcessInit ==
    /\ WFIdle
    /\ service_messages = { PlainMessage }
    /\ pt_pc = "linear_start"
    /\ pt_task \in [ linear : BOOLEAN, github : BOOLEAN ]
    /\ pt_result = "none"
    /\ linear_state = "Todo"
    /\ github_pr_url = None
    /\ events = <<>>
    /\ acked = FALSE
    /\ stats = [ tasks_completed |-> 0, tasks_failed |-> 0 ]
    /\ pt_errors = 0
    /\ faults = {}

ProcessNext ==
    \/ PTLinearStart
    \/ PTExecuteTask
    \/ PTGithubPush
    \/ PTLinearDone
    \/ PTPublishCompleted
    \/ PTXack
    \/ PTFinish
    \/ PTHandleError

ProcessSpec == ProcessInit /\ [][ProcessNext]_vars

\* the node function of a specialist is called on a state as
\* create_initial_state and the start node leave it, and the LLM service
\* sends rate-limit messages of every kind
RetryInit ==
    /\ PTIdle
    /\ pc \in { "backend", "qa" }
    /\ phase = "idle"
    /\ iteration = 0
    /\ next_agents = <<>>
    /\ task_complete = FALSE
    /\ agent_results = EmptyMap
    /\ completed_agents = <<>>
    /\ failed_agents = <<>>
    /\ messages = << Msg("created", ""), Msg("init", ""), Msg("task", "") >>
    /\ total_tokens_used = 0
    /\ total_cost_usd = 0
    /\ agent_models = NoAgentModels
    /\ scheduled_agents = <<>>
    /\ assigned_models = EmptyMap
    /\ llm_model = [ n \in AgentNodes |-> DEFAULT_MODEL ]
    /\ original_model = None
    /\ attempt = 0
    /\ delay = initial_delay
    /\ toolcalls = 0
    /\ llm_outcome = "none"
    /\ tokens_consumed = 0
    /\ warnings = 0
    /\ call = "none"
    /\ error = None
    /\ graph_runs = 0
    /\ service_messages = RateLimitMessages
    /\ rl_messages = <<>>
    /\ slept = 0
    /\ sleeps = 0
    /\ exc = NoError

RetryNext ==
    \/ AgentBegin
    \/ LLMSuccess
    \/ LLMRateLimit
    \/ LLMError

RetrySpec == RetryInit /\ [][RetryNext]_vars

TypeOK ==
    /\ pc \in {"constructed", "start", "router", "END", "raised"} \cup AgentNodes
    /\ phase \in {"idle", "llm"}
    /\ iteration \in Nat
    /\ task_complete \in BOOLEAN
    /\ total_tokens_used \in Nat
    /\ total_cost_usd \in Nat
    /\ tokens_consumed \in Nat
    /\ agent_models.present \in BOOLEAN
    /\ \A n \in AgentNodes : llm_model[n] \in Models \cup {DEFAULT_MODEL}
    /\ original_model \in Models \cup {DEFAULT_MODEL, None}
    /\ attempt \in 0..(max_retries - 1)
    /\ toolcalls \in 0..MaxToolCalls
    /\ llm_outcome \in {"none", "ok", "rate_limit", "error"}
    /\ warnings \in 0..(max_retries - 1)
    /\ call \in {"none", "execute", "resume"}
    /\ error \in {None, "KeyError"} \cup ResumeErrors
    /\ graph_runs \in 0..1
    /\ service_messages \subseteq RateLimitMessages
    /\ \A i \in 1..Len(rl_messages) : rl_messages[i] \in service_messages
    /\ slept \in Nat
    /\ sleeps \in 0..(max_retries - 1)
    /\ exc.type \in {None, "RateLimitError", "Exception"}
    /\ pt_pc \in {"off", "linear_start", "execute", "github", "linear_done",
                  "publish", "xack", "finish", "except", "done"}
    /\ pt_result \in TaskOutcomes \cup {"none"}
    /\ linear_state \in {"Todo", "In Progress", "Done"}
    /\ acked \in BOOLEAN
    /\ faults \subseteq {"linear", "github", "redis"}

(***************************************************************************)
(* Vocabulary of the properties.                                           *)
(***************************************************************************)
Range(seq) == { seq[i] : i \in 1..Len(seq) }

SpecialistIds == { NodeAgentId[n] : n \in SpecialistNodes }

\* the run of execute() is over: the graph reached END, or an exception
\* left a node and execute re-raised it
Ended == pc \in {"END", "raised"}

\* a step in which an agent's execute returns to the graph (or raises)
Leaves(node) == pc = node /\ phase = "llm" /\ phase' = "idle"

\* lexicographic order on triples of naturals
LexLess(a, b) ==
    \/ a[1] < b[1]
    \/ a[1] = b[1] /\ a[2] < b[2]
    \/ a[1] = b[1] /\ a[2] = b[2] /\ a[3] < b[3]

\* what is left of a run: the stage of the graph, the queue still to drain,
\* and the attempts and tool calls the running LLM call may still make
Rank ==
    << CASE pc = "constructed" -> 5
         [] pc = "start" -> 4
         [] pc = "architect" -> 3
         [] pc \in SpecialistNodes \cup {"router"} -> 2
         [] pc = "observer" -> 1
         [] OTHER -> 0,
       2 * Len(next_agents) + (IF pc = "router" THEN 1 ELSE 2),
       IF pc \notin AgentNodes THEN 0
       ELSE IF phase = "idle" THEN (max_retries + 1) * (MaxToolCalls + 1)
       ELSE (max_retries - attempt) * (MaxToolCalls + 1) - toolcalls >>

C2_EmptyQueueReturnsToCoordinator ==
    [][pc = "router" /\ next_agents = <<>> /\ ~task_complete
         => pc' = "architect"]_vars

\* the LLM call of the running execute ended in an exception
LLMFailed == llm_outcome \in {"error", "rate_limit"}

\* the specialist entries of a list of agent ids, in order
Specialists(seq) == SelectSeq(seq, LAMBDA a : a \in SpecialistIds)

(***************************************************************************)
(* C3: a run reaches END only with task_complete true or with the          *)
(* iteration ceiling reached.                                              *)
(***************************************************************************)
C3_EndsOnlyCompleteOrCeiling ==
    pc = "END" => (task_complete \/ iteration >= recursion_limit)

(***************************************************************************)
(* C4: when a specialist dispatch fails, agent_results holds an entry of   *)
(* that agent with success false, the agent is in failed_agents, and the   *)
(* run goes back to the router.                                            *)
(***************************************************************************)
C4_FailureRecordedInResults ==
    [][\A n \in SpecialistNodes :
         (Leaves(n) /\ LLMFailed')
           => /\ NodeAgentId[n] \in DOMAIN agent_results'
              /\ agent_results'[NodeAgentId[n]].success = FALSE
              /\ NodeAgentId[n] \in Range(failed_agents')
              /\ pc' = "router"]_vars

(***************************************************************************)
(* C5: agent_results has an entry for x exactly if x occurs in             *)
(* completed_agents or failed_agents.                                      *)
(***************************************************************************)
C5_ResultsIffCompletedOrFailed ==
    DOMAIN agent_results = Range(completed_agents) \cup Range(failed_agents)

(***************************************************************************)
(* C6: the coordinator schedules the single specialist backend, backend    *)
(* succeeds: the final state lists exactly backend as completed            *)
(* specialist, has task_complete true and iteration 2.                     *)
(***************************************************************************)
C6_SingleSpecialistScenario ==
    ( /\ pc = "END"
      /\ scheduled_agents = << "backend" >>
      /\ NodeAgentId["backend"] \in Range(completed_agents) )
    => /\ Specialists(completed_agents) = << NodeAgentId["backend"] >>
       /\ task_complete
       /\ iteration = 2

(***************************************************************************)
(* C7: when the coordinator's LLM call fails, the failure is recorded,     *)
(* next_agents is empty and task_complete true after the step, and the     *)
(* first router pass goes to the observer.                                 *)
(***************************************************************************)
C7_CoordinatorFailureEndsRun ==
    [][/\ (Leaves("architect") /\ LLMFailed')
           => /\ ARCHITECT_ID \in Range(failed_agents')
              /\ next_agents' = <<>>
              /\ task_complete'
              /\ pc' = "router"
       /\ (pc = "router" /\ iteration = 0 /\ ARCHITECT_ID \in Range(failed_agents))
           => pc' = "observer"]_vars

(***************************************************************************)
(* C8: a specialist's rate-limit error with retries left (fewer than       *)
(* max_retries failures so far) keeps the dispatch running and records     *)
(* nothing; the attempt that then succeeds appends the agent to            *)
(* completed_agents with a success result and leaves failed_agents alone.  *)
(***************************************************************************)
C8_RateLimitedThenCompleted ==
    [][\A n \in SpecialistNodes :
         (pc = n /\ phase = "llm")
           => /\ (llm_outcome' = "rate_limit" /\ attempt + 1 < max_retries)
                   => /\ pc' = n /\ phase' = "llm"
                      /\ attempt' = attempt + 1
                      /\ UNCHANGED << completed_agents, failed_agents >>
              /\ (llm_outcome' = "ok")
                   => /\ completed_agents' = Append(completed_agents, NodeAgentId[n])
                      /\ agent_results'[NodeAgentId[n]].success
                      /\ failed_agents' = failed_agents
                      /\ pc' = "router"]_vars

C8_Witness ==
    /\ pc = "router"
    /\ llm_outcome = "ok"
    /\ attempt = 2
    /\ completed_agents # <<>>
    /\ completed_agents[Len(completed_agents)] = NodeAgentId["backend"]
    /\ NodeAgentId["backend"] \notin Range(failed_agents)

(***************************************************************************)
(* C9: a failing specialist never makes execute() raise: its failure is    *)
(* an entry of failed_agents, the run goes on from the router, and every   *)
(* run in which a specialist was dispatched reaches END.                   *)
(***************************************************************************)
C9_SpecialistFailuresReturnState ==
    /\ [][\A n \in SpecialistNodes :
            (Leaves(n) /\ LLMFailed')
              => /\ failed_agents' = Append(failed_agents, NodeAgentId[n])
                 /\ pc' = "router"]_vars
    /\ (pc \in SpecialistNodes) ~> (pc = "END")

C9_Witness ==
    /\ pc = "END"
    /\ Len(Specialists(failed_agents)) = 2
    /\ Specialists(completed_agents) = <<>>

(***************************************************************************)
(* C10: when the coordinator's step ends with an empty schedule,           *)
(* task_complete is true; it stays true; and a router pass that sees       *)
(* task_complete true routes to the observer.                              *)
(***************************************************************************)
C10_CompleteRoutesToObserver ==
    [][/\ (Leaves("architect") /\ scheduled_agents = <<>>) => task_complete'
       /\ task_complete => task_complete'
       /\ (pc = "router" /\ task_complete) => pc' = "observer"]_vars

C10_Witness == pc = "observer" /\ task_complete /\ iteration = 1

\* the agents whose execute has returned, in the order of their messages
FinishedAgents ==
    LET fin == SelectSeq(messages,
                         LAMBDA m : m.kind \in {"completado", "fallo"})
    IN  [ i \in 1..Len(fin) |-> fin[i].agent ]

\* the specialists dispatched so far, the running one last
DispatchedSoFar ==
    Specialists(FinishedAgents)
        \o (IF pc \in SpecialistNodes THEN << NodeAgentId[pc] >> ELSE <<>>)

C12_TotalsNeverDecrease ==
    [][/\ total_tokens_used' >= total_tokens_used
       /\ total_cost_usd' >= total_cost_usd]_vars

C12_Witness ==
    /\ pc = "router"
    /\ llm_outcome = "error"
    /\ Specialists(failed_agents) # <<>>
    /\ Specialists(completed_agents) # <<>>
    /\ total_tokens_used > 0
    /\ total_cost_usd > 0

(***************************************************************************)
(* C13: between dispatches of a run in which no dispatch failed,           *)
(* total_tokens_used is the sum of the tokens of every LLM attempt made,   *)
(* the rate-limited attempts of the dispatches that then succeeded         *)
(* included.                                                               *)
(***************************************************************************)
C13_TotalCountsEveryAttempt ==
    (phase = "idle" /\ failed_agents = <<>>)
        => total_tokens_used = tokens_consumed

(***************************************************************************)
(* C14: resume() on a workflow without checkpointer ends with a            *)
(* not-supported error and makes no call of graph.ainvoke.                 *)
(***************************************************************************)
C14_ResumeNotSupported ==
    call = "resume"
        => /\ pc = "raised"
           /\ error = "NotSupportedError"
           /\ graph_runs = 0

(***************************************************************************)
(* C15: when no Redis call failed, a task whose execute_task succeeded is  *)
(* recorded as completed (statistics and event) whether or not a Linear    *)
(* or GitHub call of process_task failed.                                  *)
(***************************************************************************)
C15_CollaboratorFailureSwallowed ==
    (pt_pc = "done" /\ "redis" \notin faults /\ pt_result \in TaskSucceeded)
        => /\ stats = [ tasks_completed |-> 1, tasks_failed |-> 0 ]
           /\ events = << "task-completed" >>

(***************************************************************************)
(* C16: for each of the ten specialists the canonical identifier and the   *)
(* short alias are routed to the same node, the specialist's own; a router *)
(* pass that pops either form dispatches that specialist.                  *)
(***************************************************************************)
C16_AliasAndCanonicalSameNode ==
    /\ [](\A n \in SpecialistNodes :
            /\ RouteToAgents(<< n >>) = n
            /\ RouteToAgents(<< NodeAgentId[n] >>) = n)
    /\ [][(pc = "router" /\ ~task_complete /\ next_agents # <<>>)
            => \A n \in SpecialistNodes :
                 Head(next_agents) \in { n, NodeAgentId[n] } => pc' = n]_vars

C16_Witness ==
    /\ pc = "router"
    /\ scheduled_agents = << "backend", "agent-03-backend-specialist" >>
    /\ next_agents = <<>>
    /\ DispatchedSoFar = << NodeAgentId["backend"], NodeAgentId["backend"] >>

(***************************************************************************)
(* C17: a router pass that pops an identifier agent_map does not know      *)
(* goes to END without raising and logs a warning.                         *)
(***************************************************************************)
C17_UnknownIdWarns ==
    [][(/\ pc = "router"
        /\ ~task_complete
        /\ next_agents # <<>>
        /\ Head(next_agents) \notin DOMAIN agent_map)
          => /\ pc' = "END"
             /\ warnings' >= 1]_vars

(***************************************************************************)
(* C18: the coordinator's step starts with an empty schedule, and when it  *)
(* ends next_agents is exactly the list scheduled during the step.         *)
(***************************************************************************)
C18_NextAgentsIsTheSchedule ==
    [][/\ (pc = "architect" /\ phase = "idle" /\ phase' = "llm")
            => scheduled_agents' = <<>>
       /\ Leaves("architect") => next_agents' = scheduled_agents]_vars

C18_Witness ==
    /\ pc = "router"
    /\ iteration = 0
    /\ ARCHITECT_ID \in Range(completed_agents)
    /\ next_agents = << "qa", "backend" >>

(***************************************************************************)
(* C19: whenever no dispatch is running, the LLM of every agent is on its  *)
(* default model, the model it had before the dispatch: the model assigned *)
(* in agent_models is taken off on the success and on the failure path.    *)
(***************************************************************************)
C19_ModelRestoredAfterDispatch ==
    /\ [](phase = "idle" => \A n \in AgentNodes : llm_model[n] = DEFAULT_MODEL)
    /\ [][\A n \in AgentNodes :
            Leaves(n) => llm_model'[n] =
                           (IF original_model # None THEN original_model
                            ELSE llm_model[n])]_vars

C19_Witness ==
    /\ pc = "router"
    /\ llm_outcome = "error"
    /\ original_model = DEFAULT_MODEL
    /\ failed_agents # <<>>
    /\ failed_agents[Len(failed_agents)] = NodeAgentId["backend"]
    /\ llm_model["backend"] = DEFAULT_MODEL

\* the model agent_models holds for a node: under the agent_id, else under
\* the node's short name, else none and the agent keeps its default
AssignedInState(n) ==
    IF NodeAgentId[n] \in DOMAIN agent_models.map
      THEN agent_models.map[NodeAgentId[n]]
    ELSE IF n \in SpecialistNodes /\ n \in DOMAIN agent_models.map
      THEN agent_models.map[n]
    ELSE DEFAULT_MODEL

RouterPasses ==
    Len(DispatchedSoFar) + (IF pc \in {"observer", "END"} THEN 1 ELSE 0)

(***************************************************************************)
(* C21: a router pass adds exactly 1 to iteration and no step after the    *)
(* start node changes it otherwise; iteration is the number of router      *)
(* passes made so far.                                                     *)
(***************************************************************************)
C21_IterationCountsRouterPasses ==
    /\ [](pc \notin {"constructed", "start"} => iteration = RouterPasses)
    /\ [][IF pc = "router" THEN iteration' = iteration + 1
          ELSE pc # "start" => iteration' = iteration]_vars

C21_Witness ==
    /\ pc = "router"
    /\ iteration = 2
    /\ Len(DispatchedSoFar) = 2

(***************************************************************************)
(* C22: while a specialist executes, next_agents holds no identifier that  *)
(* the router would route to the same specialist.                          *)
(***************************************************************************)
C22_RunningAgentNotQueued ==
    \A n \in SpecialistNodes :
        pc = n => \A i \in 1..Len(next_agents) :
                    RouteToAgents(<< next_agents[i] >>) # n

\* occurrences of x in a list
Count(seq, x) == Cardinality({ i \in 1..Len(seq) : seq[i] = x })

(***************************************************************************)
(* C23: every finished dispatch of an agent adds one entry of its own to   *)
(* completed_agents (on success) or failed_agents (on failure), so an      *)
(* agent that finished twice is listed twice.                              *)
(***************************************************************************)
C23_EveryDispatchAddsItsEntry ==
    /\ [](\A n \in AgentNodes :
            Count(completed_agents, NodeAgentId[n])
              + Count(failed_agents, NodeAgentId[n])
                = Count(FinishedAgents, NodeAgentId[n]))
    /\ [][\A n \in AgentNodes :
            Leaves(n) =>
              /\ llm_outcome' = "ok" =>
                   Count(completed_agents', NodeAgentId[n])
                     = Count(completed_agents, NodeAgentId[n]) + 1
              /\ LLMFailed' =>
                   Count(failed_agents', NodeAgentId[n])
                     = Count(failed_agents, NodeAgentId[n]) + 1]_vars

C23_Witness ==
    /\ Count(completed_agents, NodeAgentId["backend"]) = 2
    /\ Count(FinishedAgents, NodeAgentId["backend"]) = 2

\* list a is the beginning of list b
IsPrefix(a, b) == Len(a) <= Len(b) /\ SubSeq(b, 1, Len(a)) = a

(***************************************************************************)
(* C24: messages, completed_agents and failed_agents are append-only:      *)
(* every step leaves the previous value of each list as a prefix of the    *)
(* new one.                                                                *)
(***************************************************************************)
C24_ListsAppendOnly ==
    [][/\ IsPrefix(messages, messages')
       /\ IsPrefix(completed_agents, completed_agents')
       /\ IsPrefix(failed_agents, failed_agents')]_vars

C24_Witness ==
    /\ pc = "END"
    /\ Len(messages) >= 6
    /\ completed_agents # <<>>
    /\ failed_agents # <<>>

(***************************************************************************)
(* C25: when every attempt of a call ends in a rate-limit error, the call  *)
(* makes exactly max_retries attempts, sleeps max_retries - 1 times, does  *)
(* not sleep after the last attempt, and raises the error of the last      *)
(* attempt.                                                                *)
(***************************************************************************)
C25_ExhaustedAfterMaxRetries ==
    /\ [](exc.type = "RateLimitError"
            => /\ Len(rl_messages) = max_retries
               /\ sleeps = max_retries - 1
               /\ exc.msg = rl_messages[max_retries]
               /\ phase = "idle")
    /\ [](Len(rl_messages) >= max_retries => exc.type = "RateLimitError")
    /\ [][(exc'.type = "RateLimitError" /\ exc.type = None)
            => sleeps' = sleeps /\ slept' = slept]_vars

C25_Witness ==
    /\ exc.type = "RateLimitError"
    /\ sleeps = max_retries - 1
    /\ rl_messages[1] # rl_messages[max_retries]
    /\ failed_agents = << NodeAgentId["backend"] >>

(***************************************************************************)
(* C26: an attempt that ends in an error other than a rate-limit error     *)
(* ends the call at once: the error leaves _execute_with_retry, no sleep   *)
(* and no further attempt follow, whatever was retried before.             *)
(***************************************************************************)
C26_OtherErrorsNotRetried ==
    [][(phase = "llm" /\ llm_outcome' = "error")
         => /\ phase' = "idle"
            /\ exc'.type = "Exception"
            /\ attempt' = attempt
            /\ sleeps' = sleeps
            /\ slept' = slept]_vars

C26_Witness ==
    /\ exc.type = "Exception"
    /\ Len(rl_messages) = 2
    /\ sleeps = 2
    /\ attempt = 2

\* the message carries a wait the wrapper can read
UsableWait(msg) ==
    msg.phrase /\ RegexMatches(msg.text) /\ FloatValid(msg.text)

RECURSIVE SumOfWaits(_, _)
\* sum over the first k rate-limit errors of the call: the server's wait
\* plus buffer (in 1/10 s) where the message carries one, else the backoff
\* delay initial_delay * 2^(i-1) of the i-th failure
SumOfWaits(k, buffer) ==
    IF k = 0 THEN 0
    ELSE SumOfWaits(k - 1, buffer)
           + (IF UsableWait(rl_messages[k])
                THEN FloatValue(rl_messages[k].text) + buffer
                ELSE Seconds(initial_delay * 2^(k - 1)))

(***************************************************************************)
(* C27 as stated: a call that succeeds after N rate-limit errors returns   *)
(* after N + 1 attempts and has slept the sum, over the N errors, of the   *)
(* server's wait where the message carries one and of the backoff delay    *)
(* otherwise.                                                              *)
(***************************************************************************)
C27_SleptSumOfParsedWaits ==
    (phase = "idle" /\ llm_outcome = "ok")
        => /\ attempt = Len(rl_messages)
           /\ sleeps = Len(rl_messages)
           /\ slept = SumOfWaits(Len(rl_messages), 0)

(***************************************************************************)
(* C27 amended: a call that succeeds after N rate-limit errors returns     *)
(* after N + 1 attempts and has slept the sum, over the N errors, of the   *)
(* server's wait plus one second where the message carries a wait and of   *)
(* the backoff delay otherwise.                                            *)
(***************************************************************************)
C27_SleptSumOfBufferedWaits ==
    (phase = "idle" /\ llm_outcome = "ok")
        => /\ attempt = Len(rl_messages)
           /\ sleeps = Len(rl_messages)
           /\ slept = SumOfWaits(Len(rl_messages), Seconds(1))

C27_Witness ==
    /\ phase = "idle"
    /\ llm_outcome = "ok"
    /\ Len(rl_messages) = 3
    /\ UsableWait(rl_messages[1])
    /\ ~UsableWait(rl_messages[2])
    /\ UsableWait(rl_messages[3])
    /\ completed_agents = << NodeAgentId["backend"] >>

\* a step in which the call caught a RateLimitError and goes on to retry
Retries == phase = "llm" /\ attempt' = attempt + 1

(***************************************************************************)
(* C28 as stated: after a rate-limit error whose message carries a wait    *)
(* of s seconds the wrapper sleeps exactly s seconds before it retries.    *)
(***************************************************************************)
C28_SleepsServerWait ==
    [][(Retries /\ UsableWait(LastError(rl_messages')))
         => slept' = slept + FloatValue(LastError(rl_messages').text)]_vars

(***************************************************************************)
(* C28 amended: after a rate-limit error with retries left whose message   *)
(* carries a wait of s seconds the wrapper sleeps once, s + 1 seconds,     *)
(* before it retries.                                                      *)
(***************************************************************************)
C28_SleepsServerWaitPlusBuffer ==
    [][(Retries /\ UsableWait(LastError(rl_messages')))
         => /\ slept' = slept + FloatValue(LastError(rl_messages').text)
                          + Seconds(1)
            /\ sleeps' = sleeps + 1]_vars

C28_Witness ==
    /\ phase = "llm"
    /\ rl_messages = << [ phrase |-> TRUE, text |-> << "1", ".", "5" >> ] >>
    /\ slept = 25
    /\ sleeps = 1

(***************************************************************************)
(* C29: after the k-th rate-limit error of a call, when its message        *)
(* carries no usable wait, the wrapper sleeps initial_delay * 2^(k-1)      *)
(* seconds, whatever the earlier errors of the call carried.               *)
(***************************************************************************)
C29_BackoffDoubles ==
    [][(Retries /\ ~UsableWait(LastError(rl_messages')))
         => /\ slept' = slept + Seconds(initial_delay * 2^attempt)
            /\ sleeps' = sleeps + 1]_vars

C29_Witness ==
    /\ phase = "llm"
    /\ Len(rl_messages) = 3
    /\ UsableWait(rl_messages[1])
    /\ UsableWait(rl_messages[2])
    /\ rl_messages[3] = PlainMessage
    /\ sleeps = 3
    /\ slept >= Seconds(initial_delay * 4)

\* the message has the phrase but no number float() accepts after it
MalformedWait(msg) == msg.phrase /\ ~UsableWait(msg)

(***************************************************************************)
(* C30: a rate-limit error with a malformed wait text never fails the      *)
(* retry logic: with retries left the call sleeps the current backoff      *)
(* delay and makes the next attempt, and no exception leaves it.           *)
(***************************************************************************)
C30_MalformedWaitFallsBack ==
    [][(/\ phase = "llm"
        /\ Len(rl_messages') = Len(rl_messages) + 1
        /\ MalformedWait(LastError(rl_messages'))
        /\ attempt < max_retries - 1)
         => /\ pc' = pc
            /\ phase' = "llm"
            /\ attempt' = attempt + 1
            /\ slept' = slept + Seconds(delay)
            /\ exc' = NoError]_vars

C30_Witness ==
    /\ phase = "idle"
    /\ llm_outcome = "ok"
    /\ rl_messages = << [ phrase |-> TRUE, text |-> << "1", ".", "2", ".", "3" >> ],
                        [ phrase |-> TRUE, text |-> << "a" >> ] >>
    /\ slept = Seconds(initial_delay) + Seconds(initial_delay * 2)

(***************************************************************************)
(* C31: a coordinator step in which assign_models stored an assignment     *)
(* ends without raising: execute() on the state of create_initial_state    *)
(* does not fail because of the assignment.                                *)
(***************************************************************************)
C31_AssignmentDoesNotRaise ==
    (call = "execute" /\ assigned_models # EmptyMap) => pc # "raised"

(***************************************************************************)
(* C32: a specialist that starts a dispatch runs on the model the state    *)
(* assigns to it, whether the assignment is keyed by the specialist's      *)
(* agent_id or by its short name; the agent_id is looked up first.         *)
(***************************************************************************)
C32_OverrideFoundUnderEitherKey ==
    \A n \in SpecialistNodes :
        (pc = n /\ phase = "llm" /\ agent_models.present)
          => LET map == agent_models.map IN
               /\ NodeAgentId[n] \in DOMAIN map
                    => llm_model[n] = map[NodeAgentId[n]]
               /\ (NodeAgentId[n] \notin DOMAIN map /\ n \in DOMAIN map)
                    => llm_model[n] = map[n]

C32_Witness ==
    /\ pc = "backend"
    /\ phase = "llm"
    /\ DOMAIN agent_models.map = { "backend" }
    /\ llm_model["backend"] = agent_models.map["backend"]
    /\ llm_model["backend"] # DEFAULT_MODEL

(***************************************************************************)
(* C33: a step of the execution of an agent other than the coordinator     *)
(* leaves next_agents, task_complete and iteration unchanged and keeps     *)
(* every other agent's entry of agent_results as it was, whether the       *)
(* execution succeeds or fails.                                            *)
(***************************************************************************)
C33_SpecialistFrame ==
    [][\A n \in AgentNodes \ {"architect"} :
         pc = n
           => /\ next_agents' = next_agents
              /\ task_complete' = task_complete
              /\ iteration' = iteration
              /\ \A id \in DOMAIN agent_results :
                   id # NodeAgentId[n]
                     => /\ id \in DOMAIN agent_results'
                        /\ agent_results'[id] = agent_results[id]]_vars

C33_Witness ==
    /\ pc = "router"
    /\ completed_agents = << ARCHITECT_ID, NodeAgentId["backend"] >>
    /\ failed_agents = << NodeAgentId["qa"] >>
    /\ DOMAIN agent_results = { ARCHITECT_ID, NodeAgentId["backend"] }
    /\ ~task_complete

(***************************************************************************)
(* C34: when the run has reached END, every entry of the coordinator's     *)
(* schedule that names one of the ten specialists has been dispatched,     *)
(* whatever identifiers stand before it in the schedule.                   *)
(***************************************************************************)
C34_ScheduledSpecialistsDispatched ==
    pc = "END"
      => \A i \in 1..Len(scheduled_agents) :
           ( /\ scheduled_agents[i] \in DOMAIN agent_map
             /\ agent_map[scheduled_agents[i]] \in SpecialistNodes )
             => NodeAgentId[agent_map[scheduled_agents[i]]]
                  \in Range(FinishedAgents)

(***************************************************************************)
(* C35: a run that reached END executed the observer exactly once, as its  *)
(* last node.                                                              *)
(***************************************************************************)
C35_ObserverRunsLast ==
    pc = "END"
      => /\ FinishedAgents # <<>>
         /\ FinishedAgents[Len(FinishedAgents)] = NodeAgentId["observer"]
         /\ Count(FinishedAgents, NodeAgentId["observer"]) = 1

(***************************************************************************)
(* C36: the step in which an agent's execute ends appends the agent's      *)
(* identifier to exactly one of completed_agents and failed_agents and     *)
(* leaves the other list alone; no other step of the node changes either   *)
(* list.                                                                   *)
(***************************************************************************)
C36_OneEntryPerExecution ==
    [][\A n \in AgentNodes :
         pc = n
           => IF phase = "llm" /\ phase' = "idle"
                THEN \/ /\ completed_agents'
                            = Append(completed_agents, NodeAgentId[n])
                        /\ failed_agents' = failed_agents
                     \/ /\ failed_agents'
                            = Append(failed_agents, NodeAgentId[n])
                        /\ completed_agents' = completed_agents
                ELSE UNCHANGED << completed_agents, failed_agents >>]_vars

C36_Witness ==
    /\ pc = "END"
    /\ Len(completed_agents) + Len(failed_agents) = 3
    /\ ARCHITECT_ID \in Range(completed_agents)
    /\ NodeAgentId["observer"] \in Range(failed_agents)
    /\ Len(FinishedAgents) = 3

(***************************************************************************)
(* C37: a coordinator step that ends with no schedule stored leaves        *)
(* next_agents empty and task_complete true and hands the state to the     *)
(* router, whose first pass goes to the observer with no specialist        *)
(* dispatched.                                                             *)
(***************************************************************************)
C37_NoScheduleGoesToObserver ==
    [][/\ (Leaves("architect") /\ scheduled_agents = <<>>)
           => /\ next_agents' = <<>>
              /\ task_complete'
              /\ pc' = "router"
       /\ (pc = "router" /\ iteration = 0 /\ scheduled_agents = <<>>)
           => /\ pc' = "observer"
              /\ Specialists(FinishedAgents') = <<>>]_vars

(***************************************************************************)
(* C38 as stated: the message is acknowledged only when execute_task       *)
(* succeeded and the 'task-completed' event has been published; on the     *)
(* failure path the message is not acknowledged.                           *)
(***************************************************************************)
C38_AckedOnlyAfterPublished ==
    /\ acked => /\ pt_result \in TaskSucceeded
                /\ "task-completed" \in Range(events)
    /\ (pt_pc = "except" \/ "task-failed" \in Range(events)) => ~acked

(***************************************************************************)
(* C38 amended: the message is acknowledged only by the step that follows  *)
(* the return of publish_event('task-completed'), after execute_task       *)
(* succeeded; the event has then been published or Redis refused it and    *)
(* publish_event logged the failure. On the failure path the message is    *)
(* not acknowledged.                                                       *)
(***************************************************************************)
C38_AckedOnlyAfterPublishStep ==
    /\ [](acked => /\ pt_result \in TaskSucceeded
                   /\ pt_pc \in {"finish", "done"}
                   /\ \/ "task-completed" \in Range(events)
                      \/ "redis" \in faults)
    /\ []((pt_pc = "except" \/ "task-failed" \in Range(events)) => ~acked)
    /\ [][(acked' /\ ~acked) => pt_pc = "xack"]_vars

C38_Witness ==
    /\ pt_pc = "done"
    /\ acked
    /\ events = <<>>
    /\ "redis" \in faults
    /\ stats.tasks_completed = 1

(***************************************************************************)
(* C39: for one message 'task-completed' and 'task-failed' are never both  *)
(* published.                                                              *)
(***************************************************************************)
C39_NeverBothEvents ==
    ~ ( /\ "task-completed" \in Range(events)
        /\ "task-failed" \in Range(events) )

====
